---- MODULE Spec2Model ----
(***************************************************************************)
(* play_on_hdmi.py: the backend-fallback launcher (main, try_play_ffplay), *)
(* the mode-setting path (modetest_set_mode) and the parser of the         *)
(* `modetest -c` report (modetest_list_connectors).                        *)
(*                                                                         *)
(* The launcher is one sequential process; the only other processes are    *)
(* the ffplay children it starts, which exit on their own schedule.  The   *)
(* variable pc is main's position; every external fact the code reads     *)
(* (shutil.which, os.path.exists, a tool's exit status and output, a       *)
(* child's exit code) is chosen at the moment the code reads it.           *)
(***************************************************************************)
EXTENDS Integers, Sequences, FiniteSets

VARIABLES
    args,       \* argparse namespace: list_connectors, video, connector_id, force_mode, backend, detach
    pc,         \* main's position
    out,        \* stdout lines of the last `modetest -c` run
    mt,         \* value returned by modetest_list_connectors: unset, None, or a list
    calls,      \* external commands run so far (subprocess.run / subprocess.Popen), in order
    stdout,     \* tags of the messages main printed, in order
    i,          \* 1-based index of the loop `for b in backends`
    attempts,   \* one record per call of try_play_ffplay, in order
    procs,      \* the child process of each attempt as the OS sees it
    last_err,   \* main's last_err ("" is None)
    exit_code   \* the process exit status, meaningful when pc = "exited"

vars == <<args, pc, out, mt, calls, stdout, i, attempts, procs, last_err, exit_code>>

\* ------------------------------------------------------------ bounds, inputs

\* Longest `modetest -c` report (in lines) the parser is explored on.
MaxLines == 4

\* argparse: a missing positional is None; the other values are paths.
NoVideo == "<None>"
EmptyPath == ""
MissingPath == "missing.mp4"
MoviePath == "movie.mp4"
Videos == {NoVideo, EmptyPath, MissingPath, MoviePath}

\* os.path.exists(args.video) for the paths above.
PathExists(p) == p = MoviePath

\* Exit codes a child can end with (Popen.returncode: -N is death by signal N).
ExitCodes == {0, 1, -9}

\* ------------------------------------------------ lines of a modetest report

HdrLine == "Connectors:"
ColLine == "id encoder status name size (mm) modes encoders"
BlankLine == "  "
Row29 == "29 10 connected HDMI-A-1 480x270 1 10"
Row30 == "30 11 disconnected HDMI-A-2 0x0 0 11"
ModesLine == "  modes:"
Mode1080 == "  1920x1080 60 1920 2008 2052 2200"
Mode720 == "  1280x720 60 1280 1390 1430 1650"
PropsLine == "  props:"

Lines == {HdrLine, ColLine, BlankLine, Row29, Row30, ModesLine, Mode1080, Mode720, PropsLine}

\* "Connectors:" in line
HasConnectors(line) == line = HdrLine

\* not line.strip()
IsBlank(line) == line = BlankLine

\* line.strip().startswith("id")
StartsWithId(line) == line = ColLine

\* re.match(r"\s*(\d+)\s+(\d+)\s+(\w+)\s+(\S+)", line) succeeds
RowMatches(line) == line \in {Row29, Row30}

\* int(m.group(1)), m.group(3), m.group(4) of a matching row
RowId(line) == IF line = Row29 THEN 29 ELSE 30
RowStatus(line) == IF line = Row29 THEN "connected" ELSE "disconnected"
RowType(line) == IF line = Row29 THEN "HDMI-A-1" ELSE "HDMI-A-2"

\* "modes:" in line
HasModes(line) == line = ModesLine

\* re.match(r"(\d+x\d+)", line.strip()): the resolution, "" when there is no match
Resolution(line) ==
    IF line = Mode1080 THEN "1920x1080" ELSE IF line = Mode720 THEN "1280x720" ELSE ""

\* --------------------------------------------- modetest_list_connectors

RECURSIVE FindHeader(_, _)
\* while i < len(out) and "Connectors:" not in out[i]: i += 1
FindHeader(o, j) ==
    IF j <= Len(o) /\ ~HasConnectors(o[j]) THEN FindHeader(o, j + 1) ELSE j

RECURSIVE SkipToModes(_, _)
\* while i < len(out) and "modes:" not in out[i]: i += 1
SkipToModes(o, j) ==
    IF j <= Len(o) /\ ~HasModes(o[j]) THEN SkipToModes(o, j + 1) ELSE j

RECURSIVE CollectModes(_, _, _)
\* while i < len(out) and out[i].strip(): keep the lines that start with a resolution
CollectModes(o, j, modes) ==
    IF j <= Len(o) /\ ~IsBlank(o[j])
    THEN CollectModes(o, j + 1,
             IF Resolution(o[j]) # "" THEN Append(modes, Resolution(o[j])) ELSE modes)
    ELSE [i |-> j, modes |-> modes]

RECURSIVE ParseBlocks(_, _, _)
\* the loop "parse connector blocks"
ParseBlocks(o, j, connectors) ==
    IF j > Len(o) THEN connectors
    ELSE IF IsBlank(o[j]) THEN ParseBlocks(o, j + 1, connectors)
    ELSE IF RowMatches(o[j])
    THEN LET m == SkipToModes(o, j + 1)
             r == IF m <= Len(o) /\ HasModes(o[m])
                  THEN CollectModes(o, m + 1, <<>>)
                  ELSE [i |-> m, modes |-> <<>>]
         IN  ParseBlocks(o, r.i,
                 Append(connectors,
                        [id |-> RowId(o[j]), type |-> RowType(o[j]),
                         status |-> RowStatus(o[j]), modes |-> r.modes]))
    ELSE ParseBlocks(o, j + 1, connectors)

\* The value of mt: None, or a list of connector records.
MtNone == [st |-> "None", conns |-> <<>>]
MtUnset == [st |-> "unset", conns |-> <<>>]
MtList(c) == [st |-> "list", conns |-> c]

\* The parsing half of modetest_list_connectors, on the report's lines.
ParseConnectors(o) ==
    LET h == FindHeader(o, 1)
    IN  IF h > Len(o) THEN MtNone
        ELSE LET j == IF h + 1 <= Len(o) /\ StartsWithId(o[h + 1]) THEN h + 2 ELSE h + 1
             IN  MtList(ParseBlocks(o, j, <<>>))

\* modetest_list_connectors(): `present` is shutil.which("modetest"), `runok` is
\* whether `modetest -c` exited 0 (check=True), `o` its stdout lines.
modetest_list_connectors(present, runok, o) ==
    IF ~present THEN MtNone
    ELSE IF ~runok THEN MtNone
    ELSE ParseConnectors(o)

\* Reports of at most MaxLines lines, and the reports main's runs read.
Reports == UNION {[1..n -> Lines] : n \in 0..MaxLines}

ToolReports ==
    { <<>>,
      <<PropsLine>>,
      <<HdrLine, ColLine>>,
      <<HdrLine, ColLine, Row30, PropsLine>>,
      <<HdrLine, ColLine, Row29, PropsLine, BlankLine>>,
      <<HdrLine, ColLine, Row29, ModesLine, Mode1080, Mode720, PropsLine, BlankLine>>,
      <<HdrLine, ColLine, Row30, PropsLine, BlankLine, Row29, ModesLine, Mode720, PropsLine>> }

\* ------------------------------------------------------------------ main

\* Range of a sequence.
Range(q) == {q[n] : n \in 1..Len(q)}

\* Backends with the last fallback of the automatic list left out.
Backends_NoDefault(backend) ==
    IF backend = "auto" THEN <<"kmsdrm", "fbcon">> ELSE <<backend>>

\* main, "decide backends to try".
Backends(backend) ==
    IF backend = "auto" THEN <<"kmsdrm", "fbcon", "default">> ELSE <<backend>>

\* main, the overlay `env` built for backend b; fb0 is os.path.exists("/dev/fb0").
BackendEnv(b, fb0) ==
    IF b = "kmsdrm" THEN {<<"SDL_VIDEODRIVER", "kmsdrm">>}
    ELSE IF b = "fbcon"
    THEN {<<"SDL_VIDEODRIVER", "fbcon">>} \cup (IF fb0 THEN {<<"SDL_FBDEV", "/dev/fb0">>} ELSE {})
    ELSE {}

\* main, `if rc == 0`.
Succeeded(rc) == rc = 0

\* StartBranch with the --connector-id test placed before the existence test.
StartBranch_ConnectorFirst(a) ==
    IF a.list_connectors THEN "list"
    ELSE IF a.video = NoVideo \/ a.video = EmptyPath THEN "usage"
    ELSE IF a.connector_id # {} THEN "modeset"
    ELSE IF ~PathExists(a.video) THEN "notfound"
    ELSE "backends"

\* main from parse_args to the mode-setting block: which branch is taken.
\* `not args.video` is true of None and of the empty string.
StartBranch(a) ==
    IF a.list_connectors THEN "list"
    ELSE IF a.video = NoVideo \/ a.video = EmptyPath THEN "usage"
    ELSE IF ~PathExists(a.video) THEN "notfound"
    ELSE IF a.connector_id # {} THEN "modeset"
    ELSE "backends"

\* main, found = [c for c in mt if c["id"] == args.connector_id]
Found(conns, cid) == SelectSeq(conns, LAMBDA c : c.id \in cid)

\* main, the mode-setting block after modetest_list_connectors() returned m:
\* what it does next.
ModeDecision(m, cid, force) ==
    IF m.st = "None" THEN "unavailable"
    ELSE IF Found(m.conns, cid) = <<>> THEN "not_listed"
    ELSE IF Found(m.conns, cid)[1].modes = <<>> THEN "no_modes"
    ELSE IF force THEN "set"
    ELSE "hint"

\* ProbeOutcome that reports every child found exited as a failure (1 for code 0).
ProbeOutcome_ExitedFails(running, code, detach) ==
    IF running
    THEN IF detach THEN [kind |-> "return", rc |-> 0] ELSE [kind |-> "wait", rc |-> 0]
    ELSE [kind |-> "return", rc |-> IF code = 0 THEN 1 ELSE code]

\* ProbeOutcome that does not wait for a running child without detach and reports
\* the attempt as failed.
ProbeOutcome_NoWait(running, code, detach) ==
    IF running
    THEN IF detach THEN [kind |-> "return", rc |-> 0] ELSE [kind |-> "return", rc |-> 1]
    ELSE [kind |-> "return", rc |-> code]

\* ProbeOutcome that ignores detach and always waits for a running child.
ProbeOutcome_IgnoreDetach(running, code, detach) ==
    IF running
    THEN [kind |-> "wait", rc |-> 0]
    ELSE [kind |-> "return", rc |-> code]

\* try_play_ffplay after time.sleep(timeout_probe): `running` is proc.poll() is None,
\* `code` the exit code poll() returned otherwise.
ProbeOutcome(running, code, detach) ==
    IF running
    THEN IF detach THEN [kind |-> "return", rc |-> 0] ELSE [kind |-> "wait", rc |-> 0]
    ELSE [kind |-> "return", rc |-> code]

\* WaitResult that drops the exit code: proc.wait() followed by `return 0`.
WaitResult_Zero(code) == 0

\* try_play_ffplay, `return proc.wait()`.
WaitResult(code) == code

Attempt(b, env, probe, settled, rc, err) ==
    [b |-> b, env |-> env, probe |-> probe, settled |-> settled, rc |-> rc, err |-> err]

NoProc == [state |-> "none", code |-> 0, setsid |-> FALSE]

Call(tool, arg) == [tool |-> tool, arg |-> arg]

ArgSets ==
    [list_connectors : BOOLEAN, video : Videos, connector_id : {{}, {29}},
     force_mode : BOOLEAN, backend : {"auto", "kmsdrm", "fbcon", "default"},
     detach : BOOLEAN]

Init ==
    /\ args \in ArgSets
    /\ pc = "start"
    /\ out = <<>>
    /\ mt = MtUnset
    /\ calls = <<>>
    /\ stdout = <<>>
    /\ i = 1
    /\ attempts = <<>>
    /\ procs = <<>>
    /\ last_err = ""
    /\ exit_code = 0

\* The call mt = modetest_list_connectors(), on a report drawn from R.
CallModetestList(R) ==
    \E present \in BOOLEAN, runok \in BOOLEAN, r \in R :
        /\ mt' = modetest_list_connectors(present, runok, r)
        /\ out' = IF present /\ runok THEN r ELSE out
        /\ calls' = IF present THEN Append(calls, Call("modetest -c", "")) ELSE calls

\* main, `if args.list_connectors:` ... return
ListConnectors(R) ==
    /\ pc = "start"
    /\ StartBranch(args) = "list"
    /\ CallModetestList(R)
    /\ stdout' = stdout \o <<"sysfs connectors",
                             IF mt'.st = "None" THEN "modetest not available" ELSE "modetest connectors">>
    /\ pc' = "exited"
    /\ exit_code' = 0
    /\ UNCHANGED <<args, i, attempts, procs, last_err>>

\* main, `if not args.video:` print_help, sys.exit(1)
Usage ==
    /\ pc = "start"
    /\ StartBranch(args) = "usage"
    /\ stdout' = Append(stdout, "usage")
    /\ pc' = "exited"
    /\ exit_code' = 1
    /\ UNCHANGED <<args, out, mt, calls, i, attempts, procs, last_err>>

\* main, `if not os.path.exists(args.video):` sys.exit(2)
VideoNotFound ==
    /\ pc = "start"
    /\ StartBranch(args) = "notfound"
    /\ stdout' = Append(stdout, "video not found")
    /\ pc' = "exited"
    /\ exit_code' = 2
    /\ UNCHANGED <<args, out, mt, calls, i, attempts, procs, last_err>>

\* main with no --connector-id: straight to the loop over the backends.
NoConnector ==
    /\ pc = "start"
    /\ StartBranch(args) = "backends"
    /\ pc' = "loop"
    /\ UNCHANGED <<args, out, mt, calls, stdout, i, attempts, procs, last_err, exit_code>>

\* main, `if args.connector_id is not None:` up to the call of modetest_set_mode.
ModeLookup ==
    /\ pc = "start"
    /\ StartBranch(args) = "modeset"
    /\ CallModetestList(ToolReports)
    /\ LET d == ModeDecision(mt', args.connector_id, args.force_mode)
       IN  /\ stdout' = Append(stdout, d)
           /\ pc' = IF d = "set" THEN "setmode" ELSE "loop"
    /\ UNCHANGED <<args, i, attempts, procs, last_err, exit_code>>

\* SetMode with a handler for RuntimeError only: CalledProcessError and OSError end
\* the program with a traceback (exit status 1).
SetMode_Uncaught ==
    /\ pc = "setmode"
    /\ LET chosen_mode == Found(mt.conns, args.connector_id)[1].modes[1]
       IN  \E outcome \in {"RuntimeError", "OSError", "CalledProcessError", "ok"} :
               /\ calls' = IF outcome \in {"CalledProcessError", "ok"}
                           THEN Append(calls, Call("sudo modetest -s", chosen_mode))
                           ELSE calls
               /\ stdout' = Append(stdout,
                                CASE outcome = "ok" -> "modetest mode set returned"
                                  [] outcome = "RuntimeError" -> "could not run modetest"
                                  [] OTHER -> "traceback")
               /\ pc' = IF outcome \in {"ok", "RuntimeError"} THEN "loop" ELSE "exited"
               /\ exit_code' = IF outcome \in {"ok", "RuntimeError"} THEN exit_code ELSE 1
    /\ UNCHANGED <<args, out, mt, i, attempts, procs, last_err>>

\* main's try block around modetest_set_mode(args.connector_id, chosen_mode):
\* RuntimeError when shutil.which finds no modetest, OSError when sudo cannot be
\* run, CalledProcessError when the command exits non-zero; all three are caught.
SetMode ==
    /\ pc = "setmode"
    /\ LET chosen_mode == Found(mt.conns, args.connector_id)[1].modes[1]
       IN  \E outcome \in {"RuntimeError", "OSError", "CalledProcessError", "ok"} :
               /\ calls' = IF outcome \in {"CalledProcessError", "ok"}
                           THEN Append(calls, Call("sudo modetest -s", chosen_mode))
                           ELSE calls
               /\ stdout' = Append(stdout,
                                CASE outcome = "ok" -> "modetest mode set returned"
                                  [] outcome = "CalledProcessError" -> "modetest failed"
                                  [] OTHER -> "could not run modetest")
    /\ pc' = "loop"
    /\ UNCHANGED <<args, out, mt, i, attempts, procs, last_err, exit_code>>

\* main after try_play_ffplay returned (or raised, rc = 1) for attempt i.
Settle(rc) ==
    IF Succeeded(rc)
    THEN /\ pc' = "exited"
         /\ exit_code' = 0
         /\ UNCHANGED <<i, stdout>>
    ELSE /\ pc' = "loop"
         /\ i' = i + 1
         /\ stdout' = Append(stdout, "backend appeared to fail")
         /\ UNCHANGED exit_code

\* One iteration of `for b in backends` up to time.sleep(timeout_probe): the overlay,
\* find_ffplay, Popen.  A raise inside try_play_ffplay is caught by main.
Launch ==
    /\ pc = "loop"
    /\ i <= Len(Backends(args.backend))
    /\ LET b == Backends(args.backend)[i]
       IN  \E fb0 \in BOOLEAN, ffplay \in BOOLEAN, spawned \in BOOLEAN :
           LET env == BackendEnv(b, fb0)
           IN  IF ~ffplay \/ ~spawned
               THEN LET e == IF ~ffplay THEN "ffplay not found" ELSE "OSError"
                    IN  /\ attempts' = Append(attempts, Attempt(b, env, "nospawn", TRUE, 1, e))
                        /\ procs' = Append(procs, NoProc)
                        /\ last_err' = e
                        /\ calls' = calls
                        /\ Settle(1)
               ELSE /\ attempts' = Append(attempts, Attempt(b, env, "pending", FALSE, 0, ""))
                    /\ procs' = Append(procs, [state |-> "running", code |-> 0, setsid |-> args.detach])
                    /\ calls' = Append(calls, Call("ffplay", args.video))
                    /\ pc' = "probe"
                    /\ UNCHANGED <<i, stdout, last_err, exit_code>>
    /\ UNCHANGED <<args, out, mt>>

\* A running ffplay child exits with code c (end of media, error, signal).
ChildExit ==
    \E k \in 1..Len(procs), c \in ExitCodes :
        /\ procs[k].state = "running"
        /\ procs' = [procs EXCEPT ![k].state = "exited", ![k].code = c]
        /\ UNCHANGED <<args, pc, out, mt, calls, stdout, i, attempts, last_err, exit_code>>

\* try_play_ffplay from `code = proc.poll()` on, and main's test of rc when it returns.
Probe ==
    /\ pc = "probe"
    /\ LET k == Len(attempts)
           running == procs[k].state = "running"
           o == ProbeOutcome(running, procs[k].code, args.detach)
       IN  IF o.kind = "wait"
           THEN /\ attempts' = [attempts EXCEPT ![k].probe = "alive"]
                /\ pc' = "wait"
                /\ UNCHANGED <<i, stdout, exit_code>>
           ELSE /\ attempts' = [attempts EXCEPT ![k].probe = IF running THEN "alive" ELSE "exited",
                                                ![k].settled = TRUE, ![k].rc = o.rc]
                /\ Settle(o.rc)
    /\ UNCHANGED <<args, out, mt, calls, procs, last_err>>

\* try_play_ffplay, proc.wait() returns once the child has exited.
Wait ==
    /\ pc = "wait"
    /\ LET k == Len(attempts)
       IN  /\ procs[k].state = "exited"
           /\ attempts' = [attempts EXCEPT ![k].settled = TRUE, ![k].rc = WaitResult(procs[k].code)]
           /\ Settle(WaitResult(procs[k].code))
    /\ UNCHANGED <<args, out, mt, calls, procs, last_err>>

\* main after the loop: "all backends failed", sys.exit(3)
AllFailed ==
    /\ pc = "loop"
    /\ i > Len(Backends(args.backend))
    /\ stdout' = Append(stdout, "all backends failed")
    /\ pc' = "exited"
    /\ exit_code' = 3
    /\ UNCHANGED <<args, out, mt, calls, i, attempts, procs, last_err>>

\* The steps of main.
Main ==
    \/ ListConnectors(ToolReports)
    \/ Usage
    \/ VideoNotFound
    \/ NoConnector
    \/ ModeLookup
    \/ SetMode
    \/ Launch
    \/ Probe
    \/ Wait
    \/ AllFailed

Next == Main \/ ChildExit

Spec == Init /\ [][Next]_vars

\* The interpreter keeps running main; a child may run for ever.
FairSpec == Spec /\ WF_vars(Main)

\* `--list-connectors` on every report of at most MaxLines lines.
ParseInit ==
    /\ Init
    /\ args = [list_connectors |-> TRUE, video |-> NoVideo, connector_id |-> {},
               force_mode |-> FALSE, backend |-> "auto", detach |-> FALSE]

ParseNext == ListConnectors(Reports)

ParseSpec == ParseInit /\ [][ParseNext]_vars

\* ---------------------------------------------------------------- claims

\* The candidate list the command line selects, as the documentation states it.
SelectedList ==
    IF args.backend = "auto" THEN <<"kmsdrm", "fbcon", "default">> ELSE <<args.backend>>

\* The launcher has moved past attempt k as a failure: a later candidate was
\* started, or the loop is about to take the next one, or the program exited 3.
TreatedAsFailure(k) ==
    \/ k < Len(attempts)
    \/ pc = "loop" /\ i = k + 1
    \/ pc = "exited" /\ exit_code = 3

\* C1: if candidate k's child was still running when polled after the probe sleep,
\* no candidate after k is ever started, whatever the child's later exit code.
C1_NoCandidateAfterAlive ==
    \A k \in 1..Len(attempts) : attempts[k].probe = "alive" => Len(attempts) = k

\* C2: once an attempt found the player executable missing, no further candidate
\* is tried (and so no further overlay is built).
C2_MissingPlayerStopsLaunch ==
    \A k \in 1..Len(attempts) : attempts[k].err = "ffplay not found" => Len(attempts) = k

C4_AtMostOneChildRunning ==
    Cardinality({k \in 1..Len(procs) : procs[k].state = "running"}) <= 1

C4_Witness ==
    /\ Len(procs) >= 2
    /\ procs[1].state = "exited"
    /\ procs[2].state = "running"

\* C5: with an existing video path the program exits 3 exactly when every candidate
\* of the selected list was attempted once, in list order, and each attempt failed;
\* otherwise it ends with exit code 0.  At every moment the attempts made are a
\* prefix of the selected list.
C5_Exit3IffAllFailed ==
    (~args.list_connectors /\ PathExists(args.video)) =>
        /\ Len(attempts) <= Len(SelectedList)
        /\ \A k \in 1..Len(attempts) : attempts[k].b = SelectedList[k]
        /\ pc = "exited" =>
              /\ exit_code \in {0, 3}
              /\ exit_code = 3 <=>
                    /\ Len(attempts) = Len(SelectedList)
                    /\ \A k \in 1..Len(attempts) : attempts[k].settled /\ attempts[k].rc # 0

C5_Witness ==
    /\ pc = "exited"
    /\ exit_code = 3
    /\ args.backend = "auto"
    /\ Len(attempts) = 3
    /\ attempts[1].probe = "exited"
    /\ attempts[2].probe = "nospawn"
    /\ attempts[3].probe = "alive"

\* C6 (as documented): without --list-connectors and with a video path that names no
\* existing file, the program exits 2 and runs neither the player nor modetest.
C6_MissingVideoExits2 ==
    (~args.list_connectors /\ args.video # NoVideo /\ ~PathExists(args.video)) =>
        /\ calls = <<>>
        /\ procs = <<>>
        /\ pc = "exited" => exit_code = 2

\* C6 (as implemented): without --list-connectors and with a video path that names no
\* existing file, the program runs neither the player nor modetest, for every
\* --connector-id, --force-mode, --backend and --detach; it exits 2 when the path
\* is not empty and 1 (after the usage text) when the path is the empty string.
C6_MissingVideoExits2UnlessEmpty ==
    (~args.list_connectors /\ args.video # NoVideo /\ ~PathExists(args.video)) =>
        /\ calls = <<>>
        /\ procs = <<>>
        /\ pc \in {"start", "exited"}
        /\ pc = "exited" => exit_code = IF args.video = EmptyPath THEN 1 ELSE 2

C6_Witness ==
    /\ pc = "exited"
    /\ exit_code = 2
    /\ args.video = MissingPath
    /\ ~args.list_connectors
    /\ args.connector_id # {}
    /\ args.force_mode
    /\ args.detach

\* C7: with detach, a child still running at the poll makes try_play_ffplay return 0
\* in that step: the attempt is settled with 0 and the program has ended with exit
\* code 0, in every later state, whether the child runs on or has exited with any code.
C7_DetachReturnsAtOnce ==
    \A k \in 1..Len(attempts) :
        (args.detach /\ attempts[k].probe = "alive") =>
            /\ attempts[k].settled
            /\ attempts[k].rc = 0
            /\ pc = "exited"
            /\ exit_code = 0
            /\ Len(attempts) = k

C7_Witness ==
    /\ args.detach
    /\ pc = "exited"
    /\ Len(attempts) = 2
    /\ attempts[2].probe = "alive"
    /\ procs[2].state = "running"

\* C8: without detach, a child still running at the poll blocks the launcher until
\* the child exits, and the attempt's result is then the child's exit code.
C8_WaitReturnsExitCode ==
    \A k \in 1..Len(attempts) :
        (~args.detach /\ attempts[k].probe = "alive") =>
            IF attempts[k].settled
            THEN procs[k].state = "exited" /\ attempts[k].rc = procs[k].code
            ELSE pc = "wait" /\ Len(attempts) = k

C8_Witness ==
    /\ ~args.detach
    /\ Len(attempts) >= 1
    /\ attempts[1].probe = "alive"
    /\ attempts[1].settled
    /\ attempts[1].rc = -9

\* C9: with an existing video path and --connector-id, the first candidate is
\* always attempted whatever the mode-setting path did, and the privileged
\* set-mode command is run only when --force-mode was given too.
C9_PlaybackAfterModeSetting ==
    /\ [](("sudo modetest -s" \in {c.tool : c \in Range(calls)}) =>
              (args.force_mode /\ args.connector_id # {}))
    /\ []((~args.list_connectors /\ PathExists(args.video) /\ args.connector_id # {})
              => <>(Len(attempts) >= 1 /\ attempts[1].b = SelectedList[1]))

C9_Witness ==
    /\ "modetest failed" \in Range(stdout)
    /\ Len(attempts) >= 1
    /\ procs[1].state = "running"

\* The smallest element of S, d when S is empty.
MinOr(S, d) == IF S = {} THEN d ELSE CHOOSE x \in S : \A y \in S : x <= y

\* The modes the documentation gives the connector row at line j: the resolution
\* lines of the "modes:" block between that row and the next connector row.
RowModes(o, j) ==
    LET nj == MinOr({n \in (j + 1)..Len(o) : RowMatches(o[n])}, Len(o) + 1)
        m == MinOr({n \in (j + 1)..(nj - 1) : HasModes(o[n])}, 0)
        e == MinOr({n \in (m + 1)..(nj - 1) : IsBlank(o[n])}, nj)
        block == SelectSeq(SubSeq(o, m + 1, e - 1), LAMBDA l : Resolution(l) # "")
    IN  IF m = 0 THEN <<>> ELSE [n \in 1..Len(block) |-> Resolution(block[n])]

\* One record per connector row after the header, in report order.
RowRecords(o) ==
    LET h == FindHeader(o, 1)
        rows == SelectSeq([n \in 1..Len(o) |-> n], LAMBDA n : n > h /\ RowMatches(o[n]))
    IN  [k \in 1..Len(rows) |->
            [id |-> RowId(o[rows[k]]), type |-> RowType(o[rows[k]]),
             status |-> RowStatus(o[rows[k]]), modes |-> RowModes(o, rows[k])]]

\* C10: for a report that holds the "Connectors:" header, the parser returns one
\* record per connector row after the header, in order, each with the modes of its
\* own "modes:" block only.
C10_OneRecordPerRow ==
    (\E n \in 1..Len(out) : HasConnectors(out[n])) => mt = MtList(RowRecords(out))

====
